---------------------------- MODULE Spec2Model ----------------------------
(***************************************************************************)
(* Model of the crew-job orchestration of the FastAPI service:             *)
(*   src/main.py           kickoff_crew_async, run_crew_background_with_db  *)
(*   src/database/crud.py  create_crew_job, update_crew_job, get_crew_job,  *)
(*                         create_message, get_conversation_messages        *)
(*   src/crews/crew_manager.py  kickoff_crew_with_context                   *)
(*                                                                         *)
(* The crew_jobs table is the function jobs; every background task         *)
(* (run_crew_background_with_db) is a unit with its own AsyncSession, whose *)
(* identity map is cache[u].  update_crew_job is three awaited store        *)
(* operations (select, commit, refresh) and other coroutines can run        *)
(* between them.                                                            *)
(***************************************************************************)
EXTENDS Integers, Sequences, FiniteSets, TLC

\* ------------------------------------------------------------------ bounds
MaxJobs == 1
MaxUnits == 2
MaxFaults == 1
\* rows of the filled crew_jobs table the queries are run on
MaxListed == 54

\* --------------------------------------------------------------- constants
\* Python None for text columns and local variables; NULL for integer columns.
None == <<>>
Null == 0

Users == {1, 2}
\* conversations that exist when the service starts, with their owners
Conversations == {1}
ConversationOwner == [c \in Conversations |-> 1]

JobIds == 1..MaxJobs
UnitIds == 1..MaxUnits

VARIABLES
    jobs,       \* crew_jobs table: job_id -> row
    messages,   \* messages table: conversation_id -> rows in created_at order
    clock,      \* the server's clock (func.now(), datetime.utcnow()); it is read
                \* by every timestamp and advances between two job creations
    units,      \* number of background tasks started so far
    job_id,     \* unit -> the job_id argument of its run
    pc,         \* unit -> position in run_crew_background_with_db
    phase,      \* unit -> which update_crew_job call it is in: run, done, fail
    cache,      \* unit -> identity map of its session for the job row: <<>> or <<row>>
    job_update, \* unit -> update_data of the update_crew_job call in progress
    job,        \* unit -> local variable job (result of get_crew_job)
    context,    \* unit -> local variable conversation_context
    result,     \* unit -> local variable result (the dict the crew manager returned)
    returned,   \* unit -> the update_crew_job calls that returned a row, in order
    faults,     \* number of store operations that raised so far
    http        \* the last request of the API and the response it got

vars == <<jobs, messages, clock, units, job_id, pc, phase, cache, job_update,
          job, context, result, returned, faults, http>>

Started == 1..units

\* ------------------------------------------------------------- pure helpers
Terminal(s) == s \in {"completed", "failed"}

NonEmpty(x) == x # None

\* A topic is modelled by its length in characters.
\* schemas/crew.py CrewJobBase: topic: str = Field(..., min_length=3, max_length=500)
MinTopicLength == 3
MaxTopicLength == 500

\* Mutant of TopicValid: the lower limit is off by one.
TopicValid_OffByOne(topic) == MinTopicLength - 1 <= topic /\ topic <= MaxTopicLength

TopicValid(topic) == MinTopicLength <= topic /\ topic <= MaxTopicLength

\* the topics a caller sends: both limits and their invalid neighbours ("ab")
Topics == {2, 3, 500, 501}

\* src/database/models.py CrewJob, as create_crew_job fills it
NewJobRow(user_id, conversation_id, topic, now) ==
    [user_id         |-> user_id,
     conversation_id |-> conversation_id,
     topic           |-> topic,
     status          |-> "pending",
     result          |-> None,
     error_message   |-> None,
     started_at      |-> now,
     completed_at    |-> Null]

\* CrewJobUpdate(status="running").model_dump(exclude_unset=True)
RunningUpdate == [status |-> "running"]

\* str(result) of the dict kickoff_crew_with_context returned: the text names
\* the dict's status and the run that produced it, and is never empty.
PyStr(d) == <<"dict", d.status, d.run>>

\* Mutant of CompletedUpdate: the completion is written without completed_at.
CompletedUpdate_NoStamp(res, now) ==
    [status |-> "completed", result |-> PyStr(res)]

\* CrewJobUpdate(status="completed", result=str(result), completed_at=utcnow())
CompletedUpdate(res, now) ==
    [status |-> "completed", result |-> PyStr(res), completed_at |-> now]

\* str(e) of an exception raised by a store operation of unit u at step s
ExcStr(u, s) == <<"exception", s, u>>

\* CrewJobUpdate(status="failed", error_message=str(e), completed_at=utcnow())
FailedUpdate(msg, now) ==
    [status |-> "failed", error_message |-> msg, completed_at |-> now]

\* setattr(db_job, field, value) for every field of update_data
SetAttrs(row, upd) ==
    [f \in DOMAIN row |-> IF f \in DOMAIN upd THEN upd[f] ELSE row[f]]

\* The UPDATE a flush emits: only the attributes whose value differs from the
\* one the session loaded are written.
Flush(row, loaded, upd) ==
    [f \in DOMAIN row |->
        IF f \in DOMAIN upd /\ upd[f] # loaded[f] THEN upd[f] ELSE row[f]]

\* Mutant of get_crew_job: the row is selected by job_id alone.
get_crew_job_AnyUser(jid, user_id) ==
    IF jid \in DOMAIN jobs THEN <<jobs[jid]>> ELSE None

\* crud.get_crew_job(db, job_id, user_id):
\*   select(CrewJob).where(job_id == job_id, user_id == user_id)
\* user_id None compiles to "user_id IS NULL".
get_crew_job(jid, user_id) ==
    IF jid \in DOMAIN jobs /\ jobs[jid].user_id = user_id
    THEN <<jobs[jid]>> ELSE None

\* .where(CrewJob.user_id == user_id)
WhereUser(rows, user_id) == SelectSeq(rows, LAMBDA r : r.user_id = user_id)

\* Mutant of OrderByStartedAtDesc: the rows come oldest first.
OrderByStartedAtAsc(rows) ==
    LET n == Len(rows)
        before(j) == Cardinality({k \in 1..n :
                        \/ rows[k].started_at < rows[j].started_at
                        \/ rows[k].started_at = rows[j].started_at /\ k < j})
        rank == [j \in 1..n |-> before(j) + 1]
    IN  [i \in 1..n |-> rows[CHOOSE j \in 1..n : rank[j] = i]]

\* .order_by(CrewJob.started_at.desc()): a row's place is one more than the
\* number of rows that started later (rows of one instant keep table order)
OrderByStartedAtDesc(rows) ==
    LET n == Len(rows)
        before(j) == Cardinality({k \in 1..n :
                        \/ rows[k].started_at > rows[j].started_at
                        \/ rows[k].started_at = rows[j].started_at /\ k < j})
        rank == [j \in 1..n |-> before(j) + 1]
    IN  [i \in 1..n |-> rows[CHOOSE j \in 1..n : rank[j] = i]]

\* .offset(skip)
Offset(rows, skip) ==
    IF skip >= Len(rows) THEN <<>> ELSE SubSeq(rows, skip + 1, Len(rows))

\* .limit(limit)
Limit(rows, limit) ==
    IF limit >= Len(rows) THEN rows ELSE SubSeq(rows, 1, limit)

\* crud.get_user_crew_jobs(db, user_id, skip, limit)
get_user_crew_jobs(user_id, skip, limit) ==
    Limit(Offset(OrderByStartedAtDesc(WhereUser(jobs, user_id)), skip), limit)

\* limit: int = 50 of get_user_jobs
DefaultLimit == 50

\* crud.get_conversation(db, conversation_id, user_id)
get_conversation(cid, user_id) ==
    cid \in Conversations /\ ConversationOwner[cid] = user_id

\* crud.get_conversation_messages(db, conversation_id, user_id)
get_conversation_messages(cid, user_id) ==
    IF get_conversation(cid, user_id) THEN messages[cid] ELSE <<>>

\* messages[-n:]
LastN(s, n) == IF Len(s) <= n THEN s ELSE SubSeq(s, Len(s) - n + 1, Len(s))

ContextWindow == 10

\* [{"role": msg.role, "content": msg.content} for msg in messages[-10:]]
ConversationContext(msgs) ==
    [i \in 1..Len(LastN(msgs, ContextWindow)) |->
        [role |-> LastN(msgs, ContextWindow)[i].role,
         content |-> LastN(msgs, ContextWindow)[i].content]]

\* crews/crew_manager.py create_crew_with_context, line 19-25: the prompt gets
\* the last 5 messages of the context, each as its role and content[:200].
PromptWindow == 5
ContentBudget == 200

Truncate(content, n) ==
    IF Len(content) <= n THEN content ELSE SubSeq(content, 1, n)

ContextPrompt(ctx) ==
    [i \in 1..Len(LastN(ctx, PromptWindow)) |->
        [role |-> LastN(ctx, PromptWindow)[i].role,
         content |-> Truncate(LastN(ctx, PromptWindow)[i].content, ContentBudget)]]

\* crud.create_message: the row appended to its conversation
create_message(cid, role, content, jid) ==
    IF cid \in DOMAIN messages
    THEN [messages EXCEPT ![cid] =
            Append(@, [role |-> role, content |-> content, job_id |-> jid])]
    ELSE messages

\* ------------------------------------------------------------------- Init
Init ==
    /\ jobs = <<>>
    /\ messages = [c \in Conversations |-> <<>>]
    /\ clock = 1
    /\ units = 0
    /\ job_id = [u \in UnitIds |-> Null]
    /\ pc = [u \in UnitIds |-> "idle"]
    /\ phase = [u \in UnitIds |-> "run"]
    /\ cache = [u \in UnitIds |-> None]
    /\ job_update = [u \in UnitIds |-> RunningUpdate]
    /\ job = [u \in UnitIds |-> None]
    /\ context = [u \in UnitIds |-> <<>>]
    /\ result = [u \in UnitIds |-> None]
    /\ returned = [u \in UnitIds |-> <<>>]
    /\ faults = 0
    /\ http = [op |-> "none"]

\* ---------------------------------------------------------------- actions
\* background_tasks.add_task(run_crew_background_with_db, job_id, inputs):
\* unit u starts at the first update_crew_job call, CrewJobUpdate(status="running")
StartUnit(u, jid) ==
    /\ units' = u
    /\ job_id' = [job_id EXCEPT ![u] = jid]
    /\ pc' = [pc EXCEPT ![u] = "select"]
    /\ phase' = [phase EXCEPT ![u] = "run"]
    /\ job_update' = [job_update EXCEPT ![u] = RunningUpdate]

\* POST /crew/kickoff-async (kickoff_crew_async).  The body is validated as a
\* CrewJobCreate before the handler runs: an invalid topic is answered 422 and
\* the handler is not entered.  Otherwise: create the job, append the user
\* message when a conversation_id is given, schedule the background task.
Submit(user, conversation_id, topic) ==
    /\ Len(jobs) < MaxJobs
    /\ units < MaxUnits
    /\ IF TopicValid(topic)
       THEN /\ jobs' = Append(jobs, NewJobRow(user, conversation_id, topic, clock))
            /\ clock' = clock + 1
            /\ messages' = IF conversation_id # Null
                           THEN create_message(conversation_id, "user",
                                               <<"topic", Len(jobs) + 1>>,
                                               Len(jobs) + 1)
                           ELSE messages
            /\ StartUnit(units + 1, Len(jobs) + 1)
            /\ http' = [op |-> "kickoff", user |-> user, topic |-> topic,
                        conversation_id |-> conversation_id,
                        status |-> 200, job_id |-> Len(jobs) + 1]
       ELSE /\ http' = [op |-> "kickoff", user |-> user, topic |-> topic,
                        conversation_id |-> conversation_id,
                        status |-> 422, job_id |-> Null]
            /\ UNCHANGED <<jobs, clock, messages, units, job_id, pc, phase,
                           job_update>>
    /\ UNCHANGED <<cache, job, context, result, returned, faults>>

\* update_crew_job, line 128-134: select the row; the session keeps the
\* attributes it has already loaded; setattr the fields of update_data.
Select(u) ==
    /\ u \in Started /\ pc[u] = "select"
    /\ cache' = [cache EXCEPT ![u] =
                    IF cache[u] # None THEN cache[u]
                    ELSE IF job_id[u] \in DOMAIN jobs THEN <<jobs[job_id[u]]>>
                    ELSE None]
    /\ pc' = [pc EXCEPT ![u] = "commit"]
    /\ UNCHANGED http
    /\ UNCHANGED <<jobs, messages, clock, units, job_id, phase, job_update,
                   job, context, result, returned, faults>>

\* update_crew_job, line 136: await db.commit()
Commit(u) ==
    /\ u \in Started /\ pc[u] = "commit"
    /\ IF cache[u] # None
       THEN /\ jobs' = [jobs EXCEPT ![job_id[u]] =
                            Flush(@, cache[u][1], job_update[u])]
            /\ cache' = [cache EXCEPT ![u] = <<SetAttrs(cache[u][1], job_update[u])>>]
       ELSE UNCHANGED <<jobs, cache>>
    /\ pc' = [pc EXCEPT ![u] = "refresh"]
    /\ UNCHANGED http
    /\ UNCHANGED <<messages, clock, units, job_id, phase, job_update,
                   job, context, result, returned, faults>>

\* where run_crew_background_with_db goes on after an update_crew_job call
AfterUpdate(ph) ==
    CASE ph = "run"  -> "get_job"
      [] ph = "done" -> "append"
      [] ph = "fail" -> "end"

\* update_crew_job, line 137-139: await db.refresh(db_job); return db_job
Refresh(u) ==
    /\ u \in Started /\ pc[u] = "refresh"
    /\ cache' = [cache EXCEPT ![u] =
                    IF cache[u] # None THEN <<jobs[job_id[u]]>> ELSE None]
    /\ returned' = [returned EXCEPT ![u] =
                    IF cache[u] # None THEN Append(@, job_update[u].status) ELSE @]
    /\ pc' = [pc EXCEPT ![u] = AfterUpdate(phase[u])]
    /\ UNCHANGED http
    /\ UNCHANGED <<jobs, messages, clock, units, job_id, phase, job_update,
                   job, context, result, faults>>

\* run_crew_background_with_db, line 214-222:
\*   job = await crud.get_crew_job(db, job_id, None), then the context
GetJob(u) ==
    /\ u \in Started /\ pc[u] = "get_job"
    /\ job' = [job EXCEPT ![u] = get_crew_job(job_id[u], Null)]
    /\ context' = [context EXCEPT ![u] =
                    IF job'[u] # None /\ job'[u][1].conversation_id # Null
                    THEN ConversationContext(
                            get_conversation_messages(job'[u][1].conversation_id,
                                                      job'[u][1].user_id))
                    ELSE <<>>]
    /\ pc' = [pc EXCEPT ![u] = "kickoff"]
    /\ UNCHANGED http
    /\ UNCHANGED <<jobs, messages, clock, units, job_id, phase, cache,
                   job_update, result, returned, faults>>

\* What crew.kickoff(inputs=inputs) can do
CrewOutcomes == {"returns", "raises", "never_returns"}

\* crews/crew_manager.py kickoff_crew_with_context: the try returns the
\* success dict, the except returns the error dict; nothing is raised.
kickoff_crew_with_context(u, crew) ==
    IF crew = "returns"
    THEN [status |-> "success", run |-> u]
    ELSE [status |-> "error", run |-> u]

\* run_crew_background_with_db, line 225-235: the blocking call of the crew,
\* then the CrewJobUpdate of the second update_crew_job call is built.
Kickoff(u, crew) ==
    /\ u \in Started /\ pc[u] = "kickoff"
    /\ IF crew = "never_returns"
       THEN /\ pc' = [pc EXCEPT ![u] = "blocked"]
            /\ UNCHANGED <<result, job_update, phase>>
       ELSE /\ result' = [result EXCEPT ![u] = <<kickoff_crew_with_context(u, crew)>>]
            /\ job_update' = [job_update EXCEPT ![u] =
                                CompletedUpdate(result'[u][1], clock)]
            /\ phase' = [phase EXCEPT ![u] = "done"]
            /\ pc' = [pc EXCEPT ![u] = "select"]
    /\ UNCHANGED http
    /\ UNCHANGED <<jobs, messages, clock, units, job_id, cache, job, context,
                   returned, faults>>

\* run_crew_background_with_db, line 239-246: the assistant message
AppendAssistant(u) ==
    /\ u \in Started /\ pc[u] = "append"
    /\ messages' = IF job[u] # None /\ job[u][1].conversation_id # Null
                   THEN create_message(job[u][1].conversation_id, "assistant",
                                       PyStr(result[u][1]), job_id[u])
                   ELSE messages
    /\ pc' = [pc EXCEPT ![u] = "end"]
    /\ UNCHANGED http
    /\ UNCHANGED <<jobs, clock, units, job_id, phase, cache, job_update,
                   job, context, result, returned, faults>>

\* The awaited store operations of a unit
StoreSteps == {"select", "commit", "refresh", "get_job"}

\* A store operation raises.  A failed commit writes nothing and expires the
\* session's objects; a failed select or refresh leaves the row as committed.
\* Inside the try (line 205-246) control goes to the except handler (line
\* 248-258), which builds the CrewJobUpdate of the third update_crew_job call;
\* an exception of the handler's own call leaves the task.
DbRaise(u) ==
    /\ u \in Started /\ pc[u] \in StoreSteps
    /\ faults < MaxFaults
    /\ faults' = faults + 1
    /\ cache' = [cache EXCEPT ![u] = IF pc[u] = "commit" THEN None ELSE @]
    /\ IF phase[u] = "fail"
       THEN /\ pc' = [pc EXCEPT ![u] = "crashed"]
            /\ UNCHANGED <<job_update, phase>>
       ELSE /\ job_update' = [job_update EXCEPT ![u] =
                                FailedUpdate(ExcStr(u, pc[u]), clock)]
            /\ phase' = [phase EXCEPT ![u] = "fail"]
            /\ pc' = [pc EXCEPT ![u] = "select"]
    /\ UNCHANGED http
    /\ UNCHANGED <<jobs, messages, clock, units, job_id, job, context, result,
                   returned>>

\* run_crew_background_with_db(job_id, inputs) called again for a job that
\* already has a run (a duplicate or retried background report)
Redispatch(jid) ==
    /\ jid \in DOMAIN jobs
    /\ units < MaxUnits
    /\ StartUnit(units + 1, jid)
    /\ UNCHANGED http
    /\ UNCHANGED <<jobs, messages, clock, cache, job, context, result,
                   returned, faults>>

\* GET /crew/jobs/{job_id} (main.py get_crew_job): the job of the caller, or 404
GetCrewJobRequest(user, jid) ==
    /\ http' = [op |-> "get_job", user |-> user, job_id |-> jid,
                status |-> IF get_crew_job(jid, user) # None THEN 200 ELSE 404,
                body |-> get_crew_job(jid, user)]
    /\ UNCHANGED <<jobs, messages, clock, units, job_id, pc, phase, cache,
                   job_update, job, context, result, returned, faults>>

\* GET /crew/jobs?skip=&limit= (main.py get_user_jobs)
ListJobsRequest(user, skip, limit) ==
    /\ http' = [op |-> "list_jobs", user |-> user, skip |-> skip,
                limit |-> limit, status |-> 200,
                body |-> get_user_crew_jobs(user, skip, limit)]
    /\ UNCHANGED <<jobs, messages, clock, units, job_id, pc, phase, cache,
                   job_update, job, context, result, returned, faults>>

\* ---------------------------------------------------------- specifications
UnitStep(u) ==
    \/ Select(u)
    \/ Commit(u)
    \/ Refresh(u)
    \/ GetJob(u)
    \/ \E crew \in CrewOutcomes : Kickoff(u, crew)
    \/ AppendAssistant(u)

SubmitAny ==
    \E user \in Users, c \in {Null} \cup Conversations, topic \in Topics :
        Submit(user, c, topic)

\* The service as wired: every job gets exactly one background run.
Next ==
    \/ SubmitAny
    \/ \E u \in UnitIds : UnitStep(u)
    \/ \E u \in UnitIds : DbRaise(u)

Spec == Init /\ [][Next]_vars

\* The background run may be invoked more than once for a job.
DupNext ==
    \/ Next
    \/ \E jid \in JobIds : Redispatch(jid)

DupSpec == Init /\ [][DupNext]_vars

\* The service as wired, with every started background task scheduled again
\* and again until it has no step left (the event loop runs a ready task).
FairSpec == Spec /\ \A u \in UnitIds : WF_vars(UnitStep(u))

\* The queries.  They read the table and change nothing, so they are run on
\* the empty table, on the tables a submit leaves, and on a table that many
\* submits have filled: most rows are user 1's, every 26th is user 2's, and
\* the rows started at successive instants.
FilledOwner(i) == IF i % 26 = 1 THEN 2 ELSE 1

FilledTable ==
    [i \in 1..MaxListed |-> NewJobRow(FilledOwner(i), Null, MinTopicLength, i)]

QueryInit ==
    /\ jobs \in {<<>>, FilledTable}
    /\ clock = Len(jobs) + 1
    /\ messages = [c \in Conversations |-> <<>>]
    /\ units = 0
    /\ job_id = [u \in UnitIds |-> Null]
    /\ pc = [u \in UnitIds |-> "idle"]
    /\ phase = [u \in UnitIds |-> "run"]
    /\ cache = [u \in UnitIds |-> None]
    /\ job_update = [u \in UnitIds |-> RunningUpdate]
    /\ job = [u \in UnitIds |-> None]
    /\ context = [u \in UnitIds |-> <<>>]
    /\ result = [u \in UnitIds |-> None]
    /\ returned = [u \in UnitIds |-> <<>>]
    /\ faults = 0
    /\ http = [op |-> "none"]

\* the job ids, offsets and limits a caller sends
RequestedJobIds == {1, 2, 27, MaxListed + 1}
Skips == {0, 1, 2, 60}
Limits == {0, 1, 2, DefaultLimit, DefaultLimit + 1}

QueryNext ==
    \/ SubmitAny
    \/ \E user \in Users, jid \in RequestedJobIds : GetCrewJobRequest(user, jid)
    \/ \E user \in Users, skip \in Skips, limit \in Limits :
          ListJobsRequest(user, skip, limit)

QuerySpec == QueryInit /\ [][QueryNext]_vars

\* ------------------------------------------------------------------ claims
JobUnits(jid) == {u \in Started : job_id[u] = jid}

AllowedTransitions ==
    {<<"pending", "running">>, <<"running", "completed">>,
     <<"running", "failed">>, <<"pending", "failed">>}

\* C1: a job's status only ever changes along pending->running,
\* running->completed, running->failed or pending->failed; no step of the
\* program makes any other status change.
C1_StatusFollowsStateMachine ==
    [][\A jid \in DOMAIN jobs :
          jobs'[jid].status # jobs[jid].status
             => <<jobs[jid].status, jobs'[jid].status>> \in AllowedTransitions]_vars

\* C2: once a job's status is completed or failed, no later step changes its
\* status, result, error_message or completed_at.
C2_TerminalOutcomeIsFinal ==
    [][\A jid \in DOMAIN jobs :
          Terminal(jobs[jid].status)
             => /\ jobs'[jid].status = jobs[jid].status
                /\ jobs'[jid].result = jobs[jid].result
                /\ jobs'[jid].error_message = jobs[jid].error_message
                /\ jobs'[jid].completed_at = jobs[jid].completed_at]_vars

\* A unit is inside a terminal update_crew_job call whose commit has written
\* and which has not returned yet.
TerminalCommitted(u) ==
    u \in Started /\ phase[u] \in {"done", "fail"} /\ pc[u] = "refresh"

\* C3: of two terminal updates of the same job that are in progress at the same
\* time, only one gets its write committed: the other is rejected.
C3_ConcurrentTerminalOneWinner ==
    \A u1 \in UnitIds, u2 \in UnitIds :
        (u1 # u2 /\ TerminalCommitted(u1) /\ TerminalCommitted(u2))
            => job_id[u1] # job_id[u2]

\* C4: a job whose generation step failed (the crew raised, so the dict of the
\* crew manager has status "error") is never recorded as completed.
C4_FailedGenerationNeverCompleted ==
    \A u \in Started :
        (result[u] # None /\ result[u][1].status = "error")
            => jobs[job_id[u]].status # "completed"

\* C5: every job that has been submitted, and with it dispatched, eventually
\* has a terminal status.
C5_DispatchedJobTerminates ==
    \A jid \in JobIds :
        (jid \in DOMAIN jobs) ~> (jid \in DOMAIN jobs /\ Terminal(jobs[jid].status))

\* C6: when the call of the generation capability never returns, the job
\* eventually is failed, with an error_message and completed_at set.
C6_BlockedGenerationTimesOut ==
    \A u \in UnitIds :
        (pc[u] = "blocked")
            ~> (/\ job_id[u] \in DOMAIN jobs
                /\ jobs[job_id[u]].status = "failed"
                /\ NonEmpty(jobs[job_id[u]].error_message)
                /\ jobs[job_id[u]].completed_at # Null)

\* C7: in every state, a job's completed_at is set exactly when its status is
\* completed or failed.
C7_CompletedAtIffTerminal ==
    \A jid \in DOMAIN jobs :
        (jobs[jid].completed_at # Null) <=> Terminal(jobs[jid].status)

\* C7 witness: a background run has ended and left its job terminal with the
\* completion stamp.
C7_Witness ==
    \E jid \in DOMAIN jobs :
        /\ Terminal(jobs[jid].status) /\ jobs[jid].completed_at # Null
        /\ \E u \in JobUnits(jid) : pc[u] = "end"

\* C8: in every state, a job's result is non-empty exactly when its status is
\* completed, and its error_message exactly when its status is failed.
C8_ResultIffCompletedErrorIffFailed ==
    \A jid \in DOMAIN jobs :
        /\ NonEmpty(jobs[jid].result) <=> jobs[jid].status = "completed"
        /\ NonEmpty(jobs[jid].error_message) <=> jobs[jid].status = "failed"

\* The update_crew_job(status="running") call of unit u returned the row.
Began(u) == Len(returned[u]) > 0 /\ returned[u][1] = "running"

\* C9: at most one begin per job succeeds: a second background run of a job
\* is rejected at its begin.
C9_AtMostOneBeginPerJob ==
    \A jid \in DOMAIN jobs : Cardinality({u \in JobUnits(jid) : Began(u)}) <= 1

\* C11: get-job returns the record to the principal that owns the job, and
\* to any other principal the NotFound it returns for a job_id that does not
\* exist, without the record.
C11_GetJobOnlyForOwner ==
    http.op = "get_job" =>
        IF http.job_id \in DOMAIN jobs /\ jobs[http.job_id].user_id = http.user
        THEN http.status = 200 /\ http.body = <<jobs[http.job_id]>>
        ELSE http.status = 404 /\ http.body = None

\* C11 witness: a principal has asked for a job of another principal and got
\* NotFound.
C11_Witness ==
    /\ http.op = "get_job"
    /\ http.job_id \in DOMAIN jobs
    /\ jobs[http.job_id].user_id # http.user
    /\ http.status = 404 /\ http.body = None

\* The rows of a list-jobs response are rows of the caller, newest first, and
\* they are the caller's rows after the first skip ones.
ListedOwnNewestFirstFromSkip ==
    LET own == {j \in DOMAIN jobs : jobs[j].user_id = http.user}
        newer(r) == Cardinality({j \in own : jobs[j].started_at > r.started_at})
        left == IF Cardinality(own) > http.skip
                THEN Cardinality(own) - http.skip ELSE 0
    IN  /\ \A i \in 1..Len(http.body) :
              /\ http.body[i].user_id = http.user
              /\ \E j \in own : jobs[j] = http.body[i]
              /\ newer(http.body[i]) = http.skip + i - 1
        /\ \A i \in 1..(Len(http.body) - 1) :
              http.body[i].started_at >= http.body[i + 1].started_at
        /\ Len(http.body) = IF left < http.limit THEN left ELSE http.limit

\* C15 as stated: list-jobs returns only the caller's jobs, newest first, from
\* the offset on, and never more than a fixed page size (the 50 of the
\* default) whatever limit the caller supplies.
C15_ListBoundedByFixedPageSize ==
    http.op = "list_jobs" =>
        /\ ListedOwnNewestFirstFromSkip
        /\ Len(http.body) <= DefaultLimit

\* C15 as amended: list-jobs returns only the caller's jobs, newest first, from
\* the offset on, and never more than the limit the caller supplies.
C15_ListBoundedByCallerLimit ==
    http.op = "list_jobs" =>
        /\ ListedOwnNewestFirstFromSkip
        /\ Len(http.body) <= http.limit

\* C15 witness: a caller with more jobs than the page has skipped one and got
\* a full page of two, while another principal has jobs too.
C15_Witness ==
    /\ http.op = "list_jobs" /\ http.skip = 1 /\ http.limit = 2
    /\ Len(http.body) = 2
    /\ http.body[1].started_at > http.body[2].started_at
    /\ \E j \in DOMAIN jobs : jobs[j].user_id # http.user
    /\ Cardinality({j \in DOMAIN jobs : jobs[j].user_id = http.user}) > 3

\* C12: for a job submitted with a conversation of its owner, the context
\* handed to the generation step is the last messages of that conversation in
\* creation order, each as its role and truncated content.
C12_ContextIsLastMessages ==
    \A u \in Started :
        (/\ pc[u] = "kickoff"
         /\ jobs[job_id[u]].conversation_id # Null
         /\ get_conversation(jobs[job_id[u]].conversation_id,
                             jobs[job_id[u]].user_id))
            => ContextPrompt(context[u])
                 = ContextPrompt(ConversationContext(
                        messages[jobs[job_id[u]].conversation_id]))

\* C13: when the run of a job with a conversation has recorded the completion
\* and ended, the conversation holds an assistant message with the job's result.
C13_AssistantMessageAfterCompletion ==
    \A u \in Started :
        (/\ pc[u] = "end" /\ phase[u] = "done"
         /\ jobs[job_id[u]].status = "completed"
         /\ jobs[job_id[u]].conversation_id # Null)
            => \E i \in 1..Len(messages[jobs[job_id[u]].conversation_id]) :
                 LET m == messages[jobs[job_id[u]].conversation_id][i]
                 IN  /\ m.role = "assistant"
                     /\ m.job_id = job_id[u]
                     /\ m.content = jobs[job_id[u]].result

\* C14: a submit whose topic is shorter than 3 or longer than 500 characters
\* is answered with a validation error and changes nothing: no job, no
\* message, no background unit.
C14_InvalidTopicChangesNothing ==
    [][(/\ http' # http
        /\ http'.op = "kickoff"
        /\ (http'.topic < 3 \/ http'.topic > 500))
          => /\ http'.status = 422
             /\ UNCHANGED <<jobs, messages, units, job_id, pc>>]_vars

\* C14 witness: the topic "ab" (two characters) has been refused and there is
\* no job, no message and no unit.
C14_Witness ==
    /\ http.op = "kickoff" /\ http.topic = 2 /\ http.status = 422
    /\ jobs = <<>> /\ units = 0
    /\ \A c \in DOMAIN messages : messages[c] = <<>>

\* C16: a submit attaches its job, and appends its user message, only to a
\* conversation owned by the submitting principal.
C16_SubmitOnlyIntoOwnConversation ==
    /\ \A jid \in DOMAIN jobs :
          jobs[jid].conversation_id # Null
             => get_conversation(jobs[jid].conversation_id, jobs[jid].user_id)
    /\ \A c \in DOMAIN messages :
          \A i \in 1..Len(messages[c]) :
             messages[c][i].role = "user"
                => ConversationOwner[c] = jobs[messages[c][i].job_id].user_id

\* The lookup of the background run, get_crew_job(db, job_id, None), finds no
\* row in any state: user_id is never NULL.  The conversation context of the
\* run therefore stays empty and its assistant message is never written.
BackgroundLookupFindsNoJob ==
    \A u \in UnitIds : job[u] = None /\ context[u] = <<>>

AssistantMessageNeverWritten ==
    \A c \in DOMAIN messages :
        \A i \in 1..Len(messages[c]) : messages[c][i].role # "assistant"


=============================================================================
